---- MODULE Spec2Model ----
(***************************************************************************)
(* Model of the iffc chunk codec (src/src/lib.rs): Chunk, Decoder (an      *)
(* Iterator over a boxed Read) and Encoder (Shl<Chunk> over a boxed Write).*)
(*                                                                         *)
(* Representation.  A usize is a pair <<hi, lo>> that stands for           *)
(* hi * 65536 + lo with lo in 0..65535, so that lengths of 2^32 and more   *)
(* can be written down.  A byte vector (Vec<u8>, Box<[u8]>, &[u8]) is a    *)
(* run-length string: a sequence of runs [b |-> byte, n |-> usize], every  *)
(* run non-empty and adjacent runs of different bytes, so that equal byte  *)
(* vectors are equal values.  The fixed arrays [u8; 4] are plain tuples.   *)
(***************************************************************************)
EXTENDS Integers, Sequences, FiniteSets, TLC

VARIABLES
    sinkKind,   \* the Write behind the Encoder: "vec" (Cursor<Vec<u8>>) or "dyn" (any Write)
    sink,       \* bytes the sink has accepted so far
    enc,        \* TRUE while an Encoder handle exists (shl consumes self)
    appends,    \* one record per shl call: its chunk, the write result, the value returned
    dec,        \* TRUE once a Decoder has been constructed
    srcKind,    \* the Read behind the Decoder: "cursor" (in-memory) or "failing" (reads may err)
    src,        \* the bytes of the source
    pos,        \* read position of the source
    results,    \* one record per next() call: position before, read error, value returned
    dec2,       \* TRUE once a second, independent Decoder reads the same bytes
    pos2,       \* read position of the second Decoder's own cursor
    results2    \* one record per next() call on the second Decoder

vars == <<sinkKind, sink, enc, appends, dec, srcKind, src, pos, results,
          dec2, pos2, results2>>

----------------------------------------------------------------------------
\* Bounds of the model.
MaxAppends == 2
MaxCalls == 3
MaxTrunc == 9

----------------------------------------------------------------------------
\* usize arithmetic on <<hi, lo>> pairs.
Num(k) == <<k \div 65536, k % 65536>>

NAdd(a, b) ==
    LET l == a[2] + b[2] IN <<a[1] + b[1] + (l \div 65536), l % 65536>>

NLe(a, b) == a[1] < b[1] \/ (a[1] = b[1] /\ a[2] <= b[2])

NLt(a, b) == a[1] < b[1] \/ (a[1] = b[1] /\ a[2] < b[2])

\* a - b, for b <= a
NSub(a, b) ==
    IF a[2] >= b[2] THEN <<a[1] - b[1], a[2] - b[2]>>
    ELSE <<a[1] - b[1] - 1, a[2] + 65536 - b[2]>>

NMin(a, b) == IF NLe(a, b) THEN a ELSE b

\* 2^32, the first length the 32-bit field cannot hold
TwoPow32 == <<65536, 0>>

----------------------------------------------------------------------------
\* Byte vectors as run-length strings.
Run(b, n) == [b |-> b, n |-> n]

Fill(b, n) == IF n = Num(0) THEN <<>> ELSE <<Run(b, n)>>

RECURSIVE BLen(_)
BLen(s) == IF s = <<>> THEN Num(0) ELSE NAdd(s[1].n, BLen(Tail(s)))

BCat(s, t) ==
    IF s = <<>> THEN t
    ELSE IF t = <<>> THEN s
    ELSE IF s[Len(s)].b = t[1].b
         THEN SubSeq(s, 1, Len(s) - 1)
              \o <<Run(t[1].b, NAdd(s[Len(s)].n, t[1].n))>>
              \o Tail(t)
         ELSE s \o t

RECURSIVE BTake(_, _)
BTake(s, n) ==
    IF s = <<>> \/ n = Num(0) THEN <<>>
    ELSE IF NLe(s[1].n, n) THEN <<s[1]>> \o BTake(Tail(s), NSub(n, s[1].n))
    ELSE <<Run(s[1].b, n)>>

RECURSIVE BDrop(_, _)
BDrop(s, n) ==
    IF s = <<>> \/ n = Num(0) THEN s
    ELSE IF NLe(s[1].n, n) THEN BDrop(Tail(s), NSub(n, s[1].n))
    ELSE <<Run(s[1].b, NSub(s[1].n, n))>> \o Tail(s)

\* the byte vector of a plain sequence of bytes
RECURSIVE FromSeq(_)
FromSeq(q) == IF q = <<>> THEN <<>> ELSE BCat(Fill(q[1], Num(1)), FromSeq(Tail(q)))

\* the first k bytes of s (fewer when s is shorter) as a plain sequence
RECURSIVE Expand(_, _)
Expand(s, k) ==
    IF k = 0 \/ s = <<>> THEN <<>>
    ELSE <<s[1].b>> \o Expand(BDrop(s, Num(1)), k - 1)

----------------------------------------------------------------------------
\* pub struct Chunk(pub [u8; 4], pub Box<[u8]>)
Chunk(tag, payload) == [tag |-> tag, payload |-> payload]

\* Inputs: the tags and payloads handed to the Encoder.
RIFF == <<82, 73, 70, 70>>
AAAA == <<65, 65, 65, 65>>
BBBB == <<66, 66, 66, 66>>
TEST == <<84, 69, 83, 84>>
DATA == <<68, 65, 84, 65>>

Chunks ==
    { Chunk(AAAA, <<>>),                     \* empty payload
      Chunk(RIFF, FromSeq(<<1, 2>>)),        \* two bytes
      Chunk(BBBB, Fill(7, Num(300))),        \* 300 bytes: length field 2C 01 00 00
      Chunk(DATA, Fill(9, <<65536, 2>>)) }   \* 2^32 + 2 bytes: does not fit in 32 bits

\* Inputs: buffers handed to a Decoder directly.
Buffers ==
    { FromSeq(RIFF \o <<4, 0, 0, 0>> \o <<87, 65, 86, 69>>),    \* crate example
      FromSeq(TEST \o <<0, 0, 0, 0>>),
      FromSeq(DATA \o <<10, 0, 0, 0>> \o <<1, 2, 3, 4, 5>>),
      FromSeq(AAAA \o <<0, 0, 0, 0>> \o BBBB \o <<2, 0, 0, 0>> \o <<1, 2>>),
      FromSeq(<<65, 66, 67>>),
      FromSeq(AAAA \o <<0, 1, 0, 128>> \o <<5>>),
      FromSeq(AAAA \o <<0, 0, 0, 2>> \o <<1, 2>>) }               \* 2 only if read big-endian

----------------------------------------------------------------------------
\* Encoder.  Line 87 of lib.rs calls `sel.0.write_vectored`; `sel` is bound
\* nowhere, and the call is read here as `self.0.write_vectored`.

\* `chunk.1.len() as u32`
AsU32(n) == <<n[1] % 65536, n[2]>>

\* a big-endian length field
U32ToBeBytes(n) == <<n[1] \div 256, n[1] % 256, n[2] \div 256, n[2] % 256>>

\* u32::to_le_bytes
U32ToLeBytes(n) == <<n[2] % 256, n[2] \div 256, n[1] % 256, n[1] \div 256>>

\* the length field written ahead of the tag
IoSlicesLengthFirst(chunk) ==
    << FromSeq(<<BLen(chunk.payload)[2] % 256, BLen(chunk.payload)[2] \div 256, 0, 0>>),
       FromSeq(chunk.tag),
       chunk.payload >>

\* the three IoSlice buffers of shl, in order
IoSlices(chunk) ==
    << FromSeq(chunk.tag),
       FromSeq(U32ToLeBytes(AsU32(BLen(chunk.payload)))),
       chunk.payload >>

Joined(bufs) == BCat(BCat(bufs[1], bufs[2]), bufs[3])

\* counts a Write may report when it accepts only part of the buffers:
\* the first buffer alone, as the default write_vectored does
ShortWrites == {Num(4)}

\* what write_vectored can return for `total` offered bytes
WriteResults(kind, total) ==
    IF kind = "vec"
    THEN {[ok |-> TRUE, n |-> total]}
    ELSE {[ok |-> FALSE, n |-> Num(0)]}
         \cup {[ok |-> TRUE, n |-> k] : k \in {j \in ShortWrites : NLt(j, total)} \cup {total}}

\* a write that starts over at offset 0 of an emptied sink
WrittenFromStart(old, bytes, n) == BTake(bytes, n)

\* the sink after a write that accepted the first n bytes of bytes
Written(old, bytes, n) == BCat(old, BTake(bytes, n))

\* a result that ignores the write error
ShlResultIgnoringErr(w) == "Some"

\* `.ok()?` then `Some(Self(self.0))`
ShlResult(w) == IF w.ok THEN "Some" ELSE "None"

EncoderShl(chunk) ==
    /\ enc
    /\ ~dec
    /\ Len(appends) < MaxAppends
    /\ \E w \in WriteResults(sinkKind, BLen(Joined(IoSlices(chunk)))) :
          /\ sink' = Written(sink, Joined(IoSlices(chunk)), w.n)
          /\ appends' = Append(appends, [chunk |-> chunk, w |-> w, res |-> ShlResult(w)])
          /\ enc' = (ShlResult(w) = "Some")
    /\ UNCHANGED <<sinkKind, dec, srcKind, src, pos, results, dec2, pos2, results2>>

----------------------------------------------------------------------------
\* Decoder

\* the length field read big-endian
U32FromBeBytes(b) == <<b[2] + 256 * b[1], b[4] + 256 * b[3]>>

\* u32::from_le_bytes(size) as usize
U32FromLeBytes(b) == <<b[3] + 256 * b[4], b[1] + 256 * b[2]>>

\* Cursor::read_vectored into two 4-byte buffers: the bytes it copies
HeaderRead(buf, at) == Expand(BDrop(buf, at), 8)

\* `let mut id = [0u8; 4]` after the read
IdOf(hdr) == [i \in 1..4 |-> IF i <= Len(hdr) THEN hdr[i] ELSE 0]

\* `let mut size = [0u8; 4]` after the read
SizeOf(hdr) == [i \in 1..4 |-> IF i + 4 <= Len(hdr) THEN hdr[i + 4] ELSE 0]

\* Cursor::read into a buffer of `size` bytes: the count it returns
PayloadRead(buf, at, size) == NMin(size, NSub(BLen(buf), at))

\* `vec![0u8; size]` after read() copied s bytes into its front
DataOf(buf, at, size, s) ==
    BCat(BTake(BDrop(buf, at), s), Fill(0, NSub(size, s)))

\* a short payload accepted as it is
PayloadOkAnyCount(size, s) == TRUE

\* an empty read taken for end of input, whatever was declared
PayloadOkNonEmpty(size, s) == size = s /\ s # Num(0)

\* `Ok(s) => if size != s { return None }`
PayloadOk(size, s) == size = s

NoChunk == Chunk(<<>>, <<>>)

NoneResult(at, e) == [at |-> at, err |-> e, some |-> FALSE, chunk |-> NoChunk]

SomeResult(at, c) == [at |-> at, err |-> "none", some |-> TRUE, chunk |-> c]

\* a failing source reports one read error, at any read of its life
ReadErrors(kind, past) ==
    IF kind = "failing" /\ \A i \in DOMAIN past : past[i].err = "none"
    THEN {"none", "header", "payload"}
    ELSE {"none"}

\* `read_vectored(..).ok()?`: the header read reported an error
HeaderFailed(e) == e = "header"

\* a payload read error passed over, the read taken as done
PayloadFailedNever(e) == FALSE

\* `Err(_) => { return None }`: the payload read reported an error
PayloadFailed(e) == e = "payload"

\* one next() on a source holding buf with its cursor at `at`, the source
\* reporting read error e: the position it leaves and the value it returns
NextOutcome(buf, at, e) ==
    LET hdr  == HeaderRead(buf, at)
        at1  == NAdd(at, Num(Len(hdr)))
        size == U32FromLeBytes(SizeOf(hdr))
        s    == PayloadRead(buf, at1, size)
    IN  IF HeaderFailed(e)
        THEN [pos |-> at, res |-> NoneResult(at, e)]
        ELSE IF PayloadFailed(e)
        THEN [pos |-> at1, res |-> NoneResult(at, e)]
        ELSE [pos |-> NAdd(at1, s),
              res |-> IF PayloadOk(size, s)
                      THEN [SomeResult(at, Chunk(IdOf(hdr), DataOf(buf, at1, size, s)))
                                EXCEPT !.err = e]
                      ELSE NoneResult(at, e)]

DecoderNext(e) ==
    /\ dec
    /\ Len(results) < MaxCalls
    /\ e \in ReadErrors(srcKind, results)
    /\ pos' = NextOutcome(src, pos, e).pos
    /\ results' = Append(results, NextOutcome(src, pos, e).res)
    /\ UNCHANGED <<sinkKind, sink, enc, appends, dec, srcKind, src, dec2, pos2, results2>>

\* Decoder::new over what the in-memory sink holds, less its last d bytes
DecoderNewOnSink(d, kind) ==
    /\ ~dec
    /\ sinkKind = "vec"
    /\ d \in 0..MaxTrunc
    /\ NLe(Num(d), BLen(sink))
    /\ dec' = TRUE
    /\ srcKind' = kind
    /\ src' = BTake(sink, NSub(BLen(sink), Num(d)))
    /\ pos' = Num(0)
    /\ UNCHANGED <<sinkKind, sink, enc, appends, results, dec2, pos2, results2>>

\* Decoder::new over a given buffer
DecoderNewOnBuffer(b, kind) ==
    /\ ~dec
    /\ appends = <<>>
    /\ b \in Buffers
    /\ dec' = TRUE
    /\ srcKind' = kind
    /\ src' = b
    /\ pos' = Num(0)
    /\ UNCHANGED <<sinkKind, sink, enc, appends, results, dec2, pos2, results2>>

\* a second pass that goes on from where the first Decoder's cursor stands
SecondStartShared == pos

\* a second cursor over the same bytes starts at their first byte
SecondStart == Num(0)

\* Decoder::new over a second cursor on the same in-memory bytes
DecoderNewAgain ==
    /\ dec
    /\ ~dec2
    /\ srcKind = "cursor"
    /\ dec2' = TRUE
    /\ pos2' = SecondStart
    /\ UNCHANGED <<sinkKind, sink, enc, appends, dec, srcKind, src, pos, results, results2>>

\* next() on the second Decoder
DecoderNextAgain ==
    /\ dec2
    /\ Len(results2) < MaxCalls
    /\ pos2' = NextOutcome(src, pos2, "none").pos
    /\ results2' = Append(results2, NextOutcome(src, pos2, "none").res)
    /\ UNCHANGED <<sinkKind, sink, enc, appends, dec, srcKind, src, pos, results, dec2>>

----------------------------------------------------------------------------
\* Encoder::new over an empty sink; no Decoder yet
Init ==
    /\ sinkKind \in {"vec", "dyn"}
    /\ sink = <<>>
    /\ enc = TRUE
    /\ appends = <<>>
    /\ dec = FALSE
    /\ srcKind = "cursor"
    /\ src = <<>>
    /\ pos = Num(0)
    /\ results = <<>>
    /\ dec2 = FALSE
    /\ pos2 = Num(0)
    /\ results2 = <<>>

Next ==
    \/ \E c \in Chunks : EncoderShl(c)
    \/ \E d \in 0..MaxTrunc : \E k \in {"cursor", "failing"} : DecoderNewOnSink(d, k)
    \/ \E b \in Buffers : \E k \in {"cursor", "failing"} : DecoderNewOnBuffer(b, k)
    \/ \E e \in {"none", "header", "payload"} : DecoderNext(e)
    \/ DecoderNewAgain
    \/ DecoderNextAgain

Spec == Init /\ [][Next]_vars

----------------------------------------------------------------------------
\* Vocabulary of the properties.

\* the payload length is representable in the 32-bit length field
Fits(c) == NLt(BLen(c.payload), TwoPow32)

\* the chunks handed to shl, in call order
Appended == [i \in 1..Len(appends) |-> appends[i].chunk]

\* some next() call has returned None
Ended == \E i \in DOMAIN results : ~results[i].some

\* index of the first call that returned None (one past the last call if none did)
FirstNone ==
    IF Ended
    THEN CHOOSE i \in DOMAIN results :
            ~results[i].some /\ \A j \in 1..(i - 1) : results[j].some
    ELSE Len(results) + 1

\* what `for chk in decoder` has seen: the chunks returned before the first None
Yielded == [i \in 1..(FirstNone - 1) |-> results[i].chunk]

IsPrefix(p, q) == Len(p) <= Len(q) /\ \A i \in DOMAIN p : p[i] = q[i]

NoReadError == \A i \in DOMAIN results : results[i].err = "none"

\* the source is exactly the frames of the appended chunks, written to an in-memory sink
Framed ==
    /\ dec
    /\ sinkKind = "vec"
    /\ src = sink
    /\ \A i \in DOMAIN appends : Fits(appends[i].chunk)

\* call i: bytes left in the source when it started, and the header bytes it found
Rem(i) == NSub(BLen(src), results[i].at)

Hdr(i) == HeaderRead(src, results[i].at)

\* call i found a full 8-byte header; N is the length it declares
Declared(i) == <<Hdr(i)[7] + 256 * Hdr(i)[8], Hdr(i)[5] + 256 * Hdr(i)[6]>>

\* position of the source when call i returned
After(i) == IF i < Len(results) THEN results[i + 1].at ELSE pos

RECURSIVE ConcatAll(_)
ConcatAll(q) == IF q = <<>> THEN <<>> ELSE BCat(q[1], ConcatAll(Tail(q)))

\* what a fresh Encoder over an empty in-memory sink holds after `<< c`
WireEncoding(c) ==
    Written(<<>>, Joined(IoSlices(c)), BLen(Joined(IoSlices(c))))

----------------------------------------------------------------------------
\* C1 (round trip): a chunk whose payload length fits in 32 bits, appended to
\* an empty in-memory sink, comes back from the first next() of a decoder
\* that reads the written bytes from the start: same tag, same payload.
C1_RoundTrip ==
    ( /\ dec
      /\ sinkKind = "vec"
      /\ src = sink
      /\ appends # <<>>
      /\ Fits(appends[1].chunk)
      /\ results # <<>>
      /\ results[1].err = "none" )
    => results[1].some /\ results[1].chunk = appends[1].chunk

C1_Witness ==
    /\ dec /\ sinkKind = "vec" /\ src = sink
    /\ Len(appends) = 1
    /\ appends[1].chunk = Chunk(BBBB, Fill(7, Num(300)))
    /\ Len(results) = 1
    /\ results[1].some
    /\ results[1].chunk.payload = Fill(7, Num(300))

\* C2 (multi-chunk decode): over a source that is the frames of k chunks and
\* nothing else, the iteration yields those k chunks in order and then ends;
\* no additional chunk is produced.
C2_MultiChunkDecode ==
    (Framed /\ NoReadError) =>
        /\ IsPrefix(Yielded, Appended)
        /\ (Ended => Yielded = Appended)

\* C3 (truncated header): a next() call that starts with fewer than 8 bytes
\* left in the source returns None.
C3_TruncatedHeader ==
    \A i \in DOMAIN results :
        NLt(Rem(i), Num(8)) => ~results[i].some

\* C4 (truncated payload): a next() call that finds a full header declaring
\* N > 0 with fewer than N bytes behind it returns None, and leaves the
\* source at its end, so that every later call starts with no byte to parse.
C4_TruncatedPayload ==
    \A i \in DOMAIN results :
        ( /\ results[i].err = "none"
          /\ Len(Hdr(i)) = 8
          /\ Declared(i) # Num(0)
          /\ NLt(NSub(Rem(i), Num(8)), Declared(i)) )
        => /\ ~results[i].some
           /\ After(i) = BLen(src)
           /\ \A j \in DOMAIN results : j > i => results[j].at = BLen(src)

C4_Witness ==
    /\ src = FromSeq(DATA \o <<10, 0, 0, 0>> \o <<1, 2, 3, 4, 5>>)
    /\ srcKind = "cursor"
    /\ Len(results) = 2
    /\ ~results[1].some
    /\ results[2].at = Num(13)

\* C5 (zero-length payload): a next() call that finds a full header whose
\* length field is 00 00 00 00 returns a chunk with the header's tag and an
\* empty payload.
C5_ZeroLengthPayload ==
    \A i \in DOMAIN results :
        ( /\ results[i].err = "none"
          /\ Len(Hdr(i)) = 8
          /\ SubSeq(Hdr(i), 5, 8) = <<0, 0, 0, 0>> )
        => /\ results[i].some
           /\ results[i].chunk = Chunk(SubSeq(Hdr(i), 1, 4), <<>>)

C5_Witness ==
    /\ src = FromSeq(TEST \o <<0, 0, 0, 0>>)
    /\ results # <<>>
    /\ results[1].some
    /\ results[1].chunk = Chunk(TEST, <<>>)

\* C6 (finite sequence): the chunks yielded before the first None are no more
\* than the source has bytes, and once next() has been called more often than
\* the source has bytes, None has been returned.
C6_DecoderFinite ==
    dec =>
        /\ NLe(Num(Len(Yielded)), BLen(src))
        /\ (NLt(BLen(src), Num(Len(results))) => Ended)

C9_OversizedRejected ==
    [][ ( /\ Len(appends') = Len(appends) + 1
          /\ ~Fits(appends'[Len(appends')].chunk) )
        => /\ appends'[Len(appends')].res = "None"
           /\ sink' = sink
      ]_vars

\* C10 (encode result): an append returns None exactly when the sink write
\* reports an error and Some, with the Encoder still usable, exactly when it
\* reports success; the sink has taken what that one write reported, no more.
C10_EncodeResult ==
    [][ Len(appends') = Len(appends) + 1
        => LET a == appends'[Len(appends')]
           IN  /\ a.res = (IF a.w.ok THEN "Some" ELSE "None")
               /\ enc' = a.w.ok
               /\ BLen(sink') = NAdd(BLen(sink), a.w.n)
      ]_vars

C10_Witness ==
    /\ sinkKind = "dyn"
    /\ Len(appends) = 2
    /\ appends[1].w.ok /\ appends[1].res = "Some"
    /\ ~appends[2].w.ok /\ appends[2].res = "None"
    /\ ~enc

\* C11 (length decoding): a next() call that finds a full header and returns
\* a chunk has read and returned b0 + 256 b1 + 65536 b2 + 16777216 b3
\* payload bytes, b0..b3 being header bytes 4..7, and the chunk's tag is
\* header bytes 0..3.
C11_LengthDecoding ==
    \A i \in DOMAIN results :
        (results[i].some /\ Len(Hdr(i)) = 8)
        => /\ results[i].chunk.tag = SubSeq(Hdr(i), 1, 4)
           /\ BLen(results[i].chunk.payload) = Declared(i)
           /\ After(i) = NAdd(NAdd(results[i].at, Num(8)), Declared(i))
           /\ results[i].chunk.payload
                = BTake(BDrop(src, NAdd(results[i].at, Num(8))), Declared(i))

C11_Witness ==
    /\ src = FromSeq(RIFF \o <<4, 0, 0, 0>> \o <<87, 65, 86, 69>>)
    /\ results # <<>>
    /\ results[1].some
    /\ results[1].chunk = Chunk(RIFF, FromSeq(<<87, 65, 86, 69>>))
    /\ After(1) = Num(12)

\* C13 (exhaustion is absorbing): once a next() call has returned None, every
\* later call on the same decoder returns None.
C13_ExhaustionAbsorbing ==
    \A i \in DOMAIN results : \A j \in DOMAIN results :
        (i < j /\ ~results[i].some) => ~results[j].some

\* C14 (complete frame on success): whatever the sink, an append that returns
\* Some has added the chunk's complete frame of 8 + N bytes to the sink.
C14_CompleteFrame ==
    [][ ( /\ Len(appends') = Len(appends) + 1
          /\ appends'[Len(appends')].res = "Some" )
        => LET c == appends'[Len(appends')].chunk
           IN  /\ BTake(sink', BLen(sink)) = sink
               /\ BLen(sink') = NAdd(BLen(sink), NAdd(Num(8), BLen(c.payload)))
               /\ Expand(BDrop(sink', BLen(sink)), 4) = c.tag
               /\ BDrop(sink', NAdd(BLen(sink), Num(8))) = c.payload
      ]_vars

C15_ErrorsSwallowed ==
    \A i \in DOMAIN results :
        results[i].err # "none"
        => /\ ~results[i].some
           /\ results[i].chunk = NoChunk

C15_Witness ==
    /\ srcKind = "failing"
    /\ src = FromSeq(TEST \o <<0, 0, 0, 0>>)
    /\ Len(results) = 1
    /\ results[1].err = "payload"
    /\ ~results[1].some
    /\ pos = Num(8)

====
